---------------------------- MODULE Spec2Model ----------------------------
(***************************************************************************)
(* A model of the <insta-card> web component (src/insta-card.js): the      *)
(* visibility gate, the fetch / reconcile sequence, the reaction toggle    *)
(* and the localStorage bridge.  Rendering and styling are left out.       *)
(***************************************************************************)
EXTENDS Integers, Sequences, FiniteSets, TLC

VARIABLES
    this,          \* the component's reactive properties and its _io field
    localStorage,  \* the browser's key -> text store (a key is absent or holds a text)
    connected,     \* whether the element is attached to a document
    awaitFetch,    \* number of _fetchFox calls suspended at `await fetch(...)`
    awaitJson,     \* number of _fetchFox calls suspended at `await res.json()`
    activations,   \* history: how many times the activation steps have run
    overlapped,    \* history: _refresh was called while a fetch was outstanding
    persisted,     \* history: per image, the in-memory values at the last write by
                   \* _persist while it was shown
    just,          \* history: the click on like, dislike or save, or the completion
                   \* of _fetchFox, that ran in the last step and what it met, ""
                   \* after any other step
    initial,       \* history: the store the page started with
    delivered      \* history: the body res.json() returned in the last step, if any

vars == <<this, localStorage, connected, awaitFetch, awaitJson,
          activations, overlapped, persisted, just, initial, delivered>>

-----------------------------------------------------------------------------
(* Bounds of the model.                                                    *)

\* refresh() is not accepted while this many fetches are outstanding
MaxInFlight == 2
\* largest number of entries one IntersectionObserver callback delivers
MaxEntries == 2

-----------------------------------------------------------------------------
(* JavaScript values, and JSON texts as token sequences.  A JSON object    *)
(* text is <<"{", key, value, key, value, ..., "}">> (the ':' and ','      *)
(* separators are left out); a key or a string value is a quoted token.    *)

JNum(n)  == [t |-> "number",    n |-> n, s |-> "", b |-> FALSE]
JStr(s)  == [t |-> "string",    n |-> 0, s |-> s,  b |-> FALSE]
JBool(b) == [t |-> "boolean",   n |-> 0, s |-> "", b |-> b]
JNull    == [t |-> "null",      n |-> 0, s |-> "", b |-> FALSE]
JUndef   == [t |-> "undefined", n |-> 0, s |-> "", b |-> FALSE]

\* the strings that occur in the texts the component reads and writes
Vocabulary == {"", "like", "dislike", "likes", "dislikes", "userReact", "saved"}
\* the property names of the records the component reads
Props == {"likes", "dislikes", "userReact", "saved"}
\* the numbers a stored text of the model can hold
Numbers == (0 - 9) .. 9

Digit == <<"0", "1", "2", "3", "4", "5", "6", "7", "8", "9">>

RECURSIVE Decimal(_)
Decimal(n) == IF n < Len(Digit) THEN Digit[n + 1]
              ELSE Decimal(n \div Len(Digit)) \o Digit[(n % Len(Digit)) + 1]

NumText(n) == IF n < 0 THEN "-" \o Decimal(0 - n) ELSE Decimal(n)

Quote(s) == "\"" \o s \o "\""

\* JSON.stringify of one value (an undefined property is omitted by the caller)
ValueText(v) ==
    CASE v.t = "number"  -> NumText(v.n)
      [] v.t = "string"  -> Quote(v.s)
      [] v.t = "boolean" -> (IF v.b THEN "true" ELSE "false")
      [] OTHER           -> "null"

RECURSIVE MemberTokens(_)
MemberTokens(members) ==
    IF members = <<>> THEN <<>>
    ELSE LET m == Head(members)
         IN  (IF m[2].t = "undefined" THEN <<>> ELSE <<Quote(m[1]), ValueText(m[2])>>)
             \o MemberTokens(Tail(members))

\* JSON.stringify of an object literal given as its <<name, value>> members in order
JSONstringify(members) == <<"{">> \o MemberTokens(members) \o <<"}">>

\* the tokens of the strings and of the numbers, for reading a text back
StringToken == [s \in Vocabulary |-> Quote(s)]
NumberToken == [n \in Numbers |-> NumText(n)]
IsStringToken(tok) == \E s \in Vocabulary : StringToken[s] = tok
IsNumberToken(tok) == \E n \in Numbers : NumberToken[n] = tok

IsValueToken(tok) ==
    \/ tok \in {"true", "false", "null"}
    \/ IsStringToken(tok)
    \/ IsNumberToken(tok)

TokenValue(tok) ==
    IF tok = "true" THEN JBool(TRUE)
    ELSE IF tok = "false" THEN JBool(FALSE)
    ELSE IF tok = "null" THEN JNull
    ELSE IF IsStringToken(tok)
         THEN JStr(CHOOSE s \in Vocabulary : StringToken[s] = tok)
    ELSE JNum(CHOOSE n \in Numbers : NumberToken[n] = tok)

IsObjectText(text) ==
    /\ Len(text) >= 2
    /\ text[1] = "{"
    /\ text[Len(text)] = "}"
    /\ (Len(text) - 2) % 2 = 0
    /\ \A i \in 2 .. (Len(text) - 1) :
          IF i % 2 = 0 THEN IsStringToken(text[i])
          ELSE IsValueToken(text[i])

\* whether JSON.parse(text) returns (it throws a SyntaxError otherwise)
Parses(text) == IsObjectText(text) \/ (Len(text) = 1 /\ IsValueToken(text[1]))

\* the value of property `name` of the object a text denotes: the last member of
\* that name wins, a name that does not occur is undefined
ObjectProp(text, name) ==
    LET at == {i \in 2 .. (Len(text) - 1) : i % 2 = 0 /\ text[i] = Quote(name)}
    IN  IF at = {} THEN JUndef
        ELSE TokenValue(text[(CHOOSE i \in at : \A j \in at : j <= i) + 1])

\* JSON.parse(text), for a text that parses: an object with its properties, or a
\* primitive
JSONparse(text) ==
    IF IsObjectText(text)
    THEN [t |-> "object", prop |-> [name \in Props |-> ObjectProp(text, name)]]
    ELSE [t |-> TokenValue(text[1]).t, prop |-> [name \in Props |-> JUndef]]

\* reading a property of a parsed value throws a TypeError on null
PropThrows(p) == p.t = "null"

\* a ?? b
Nullish(a, b) == IF a.t \in {"null", "undefined"} THEN b ELSE a

\* !!a
Truthy(a) ==
    CASE a.t = "boolean" -> a.b
      [] a.t = "number"  -> a.n # 0
      [] a.t = "string"  -> a.s # ""
      [] OTHER           -> FALSE

-----------------------------------------------------------------------------
(* localStorage.                                                           *)

\* getItem: null for an absent key, the text otherwise
HasItem(ls, key) == key \in DOMAIN ls
getItem(ls, key) == ls[key]

setItem(ls, key, text) ==
    [k \in (DOMAIN ls) \cup {key} |-> IF k = key THEN text ELSE ls[k]]

\* `if (text)`: a null and an empty string are both falsy
Present(ls, key) == HasItem(ls, key) /\ getItem(ls, key) # <<>>

GLOBAL_KEY == "insta-card:global"
FAILED == "Failed to load fox image."
DEFAULT_LINK == "https://randomfox.ca/"


IMAGES == {"https://randomfox.ca/images/1.jpg", "https://randomfox.ca/images/2.jpg"}
IMAGE_A == "https://randomfox.ca/images/1.jpg"
IMAGE_B == "https://randomfox.ca/images/2.jpg"

\* the bodies the image API answers with: { image, link } with the link optional
Bodies == { [image |-> IMAGE_A, link |-> JStr("https://randomfox.ca/?i=1")],
            [image |-> IMAGE_B, link |-> JUndef] }

-----------------------------------------------------------------------------
(* The component.  A handler is an operator on a world w: the component    *)
(* (w.this), the store (w.ls) and the number of requests the handler has   *)
(* issued (w.issued).                                                      *)

constructor ==
    [ image |-> "", link |-> "", loading |-> TRUE, error |-> "", visible |-> FALSE,
      likes |-> 0, dislikes |-> 0, saved |-> FALSE, userReact |-> "",
      _io |-> "null" ]

\* mutant: one key for every image
storageKeyPending(t) == "insta-card:" \o "pending"

storageKey(t) == "insta-card:" \o (IF t.image # "" THEN t.image ELSE "pending")

_hydrateFromStorage(w) ==
    IF Present(w.ls, GLOBAL_KEY)
    THEN LET global == getItem(w.ls, GLOBAL_KEY)
         IN  IF Parses(global) /\ ~PropThrows(JSONparse(global))
             THEN [w EXCEPT !.this.saved = Truthy(JSONparse(global).prop["saved"])]
             ELSE w   \* catch (_) {}
    ELSE w

ReactionText(t) ==
    JSONstringify(<< <<"likes", JNum(t.likes)>>, <<"dislikes", JNum(t.dislikes)>>,
                     <<"userReact", JStr(t.userReact)>>, <<"saved", JBool(t.saved)>> >>)

GlobalText(t) == JSONstringify(<< <<"saved", JBool(t.saved)>> >>)

\* mutant: the record is written whether or not an image is shown
_persistAlways(w) ==
    [w EXCEPT !.ls = setItem(setItem(w.ls, storageKey(w.this), ReactionText(w.this)),
                             GLOBAL_KEY, GlobalText(w.this))]

\* lines 110-128
_persist(w) ==
    LET ls1 == IF w.this.image # ""
               THEN setItem(w.ls, storageKey(w.this), ReactionText(w.this))
               ELSE w.ls
    IN  [w EXCEPT !.ls = setItem(ls1, GLOBAL_KEY, GlobalText(w.this))]

\* _fetchFox up to `await fetch(...)`
_fetchFox(w) ==
    [w EXCEPT !.this.loading = TRUE, !.this.error = "", !.issued = @ + 1]

\* mutant: the failure also drops the image shown
FetchCatchDropsImage(w) == [w EXCEPT !.this.error = FAILED, !.this.image = ""]

\* the catch and finally blocks of _fetchFox
FetchCatch(w) == [w EXCEPT !.this.error = FAILED]
FetchFinally(w) == _persist([w EXCEPT !.this.loading = FALSE])

\* mutant: the saved flag of the record is not taken
AdoptWithoutSaved(w, p) ==
    [w EXCEPT !.this.likes = Nullish(p["likes"], JNum(0)).n,
              !.this.dislikes = Nullish(p["dislikes"], JNum(0)).n,
              !.this.userReact = Nullish(p["userReact"], JStr("")).s]

\* lines 143-146: the component takes the properties p of the parsed record
Adopt(w, p) ==
    [w EXCEPT !.this.likes = Nullish(p["likes"], JNum(0)).n,
              !.this.dislikes = Nullish(p["dislikes"], JNum(0)).n,
              !.this.userReact = Nullish(p["userReact"], JStr("")).s,
              !.this.saved = Truthy(p["saved"])]

\* mutant: the counters survive the reset of the reaction
ResetReactionOnly(w) == [w EXCEPT !.this.userReact = ""]

\* mutant: the reaction survives the reset of the counters
ResetCountersOnly(w) == [w EXCEPT !.this.likes = 0, !.this.dislikes = 0]

\* mutant: the reset also clears the saved flag
ResetWithSaved(w) ==
    [w EXCEPT !.this.likes = 0, !.this.dislikes = 0, !.this.userReact = "",
              !.this.saved = FALSE]

\* lines 148-150: no record
Reset(w) == [w EXCEPT !.this.likes = 0, !.this.dislikes = 0, !.this.userReact = ""]

\* the restore of lines 140-151, for a world whose image is already the new one;
\* threw is whether JSON.parse or a property read threw
Restore(w) ==
    LET key == storageKey(w.this)
    IN  IF Present(w.ls, key)
        THEN LET prior == getItem(w.ls, key)
             IN  IF Parses(prior) /\ ~PropThrows(JSONparse(prior))
                 THEN [threw |-> FALSE, w |-> Adopt(w, JSONparse(prior).prop)]
                 ELSE [threw |-> TRUE, w |-> w]
        ELSE [threw |-> FALSE, w |-> Reset(w)]

\* _fetchFox from the point where `await res.json()` has returned data
FetchResume(w, data) ==
    LET w1 == [w EXCEPT !.this.image = data.image,
                        !.this.link = IF Truthy(data.link) THEN data.link.s
                                      ELSE DEFAULT_LINK]
        r  == Restore(w1)
    IN  FetchFinally(IF r.threw THEN FetchCatch(r.w) ELSE r.w)

\* _fetchFox from the point where fetch rejected, res.ok was false or res.json()
\* rejected
FetchFail(w) == FetchFinally(FetchCatch(w))

\* mutant: the button also dismisses the error shown
_toggleSaveDismissingError(w) ==
    _persist([w EXCEPT !.this.saved = ~w.this.saved, !.this.error = ""])

\* mutant: the flag is flipped in memory only
_toggleSaveUnsaved(w) == [w EXCEPT !.this.saved = ~w.this.saved]

\* mutant: the button only ever sets the flag
_toggleSaveOn(w) == _persist([w EXCEPT !.this.saved = TRUE])

\* lines 162-165
_toggleSave(w) == _persist([w EXCEPT !.this.saved = ~w.this.saved])

\* mutant: a reaction taken back stays counted
DecrementForgotten(n) == n

\* mutant: the decrement without its floor
DecrementUnfloored(n) == n - 1

\* Math.max(0, n - 1)
Decrement(n) == IF n - 1 > 0 THEN n - 1 ELSE 0

\* mutant: a switch of reaction does not take the earlier reaction back
_reactWithoutTakeBack(w, type) ==
    LET t == w.this
    IN  _persist(
          IF t.userReact = type
          THEN [w EXCEPT
                  !.this.likes = IF type = "like" THEN Decrement(t.likes) ELSE t.likes,
                  !.this.dislikes = IF type = "dislike" THEN Decrement(t.dislikes)
                                    ELSE t.dislikes,
                  !.this.userReact = ""]
          ELSE IF type = "like"
          THEN [w EXCEPT !.this.likes = t.likes + 1, !.this.userReact = "like"]
          ELSE [w EXCEPT !.this.dislikes = t.dislikes + 1, !.this.userReact = "dislike"])

_react(w, type) ==
    LET t == w.this
    IN  _persist(
          IF t.userReact = type
          THEN [w EXCEPT
                  !.this.likes = IF type = "like" THEN Decrement(t.likes) ELSE t.likes,
                  !.this.dislikes = IF type = "dislike" THEN Decrement(t.dislikes)
                                    ELSE t.dislikes,
                  !.this.userReact = ""]
          ELSE IF type = "like"
          THEN [w EXCEPT
                  !.this.dislikes = IF t.userReact = "dislike" THEN Decrement(t.dislikes)
                                    ELSE t.dislikes,
                  !.this.likes = t.likes + 1,
                  !.this.userReact = "like"]
          ELSE [w EXCEPT
                  !.this.likes = IF t.userReact = "like" THEN Decrement(t.likes)
                                 ELSE t.likes,
                  !.this.dislikes = t.dislikes + 1,
                  !.this.userReact = "dislike"])

_refresh(w) == _fetchFox(w)

\* this._io?.disconnect()
IoDisconnect(w) ==
    IF w.this._io = "null" THEN w ELSE [w EXCEPT !.this._io = "disconnected"]

\* mutant: the entry is not checked against the visible flag
OnEntryUnguarded(w, e) ==
    IF e
    THEN IoDisconnect(_fetchFox(_hydrateFromStorage([w EXCEPT !.this.visible = TRUE])))
    ELSE w

\* the body of the observer's forEach, for one entry (e is e.isIntersecting)
OnEntry(w, e) ==
    IF e /\ ~w.this.visible
    THEN IoDisconnect(_fetchFox(_hydrateFromStorage([w EXCEPT !.this.visible = TRUE])))
    ELSE w

RECURSIVE ForEachEntry(_, _)
ForEachEntry(w, entries) ==
    IF entries = <<>> THEN w
    ELSE ForEachEntry(OnEntry(w, Head(entries)), Tail(entries))

\* a new IntersectionObserver is made and observes the element
connectedCallback(w) == [w EXCEPT !.this._io = "observing"]

disconnectedCallback(w) == IoDisconnect(w)

-----------------------------------------------------------------------------
(* The stores a page can start with: each key absent, or holding a text    *)
(* whose fields, where present, have the types of the data model, or a     *)
(* text that does not parse.                                               *)

Malformed == <<"{", Quote("likes")>>

InitialGlobal ==
    { <<>>,                                            \* key absent
      <<JSONstringify(<< <<"saved", JBool(TRUE)>> >>)>>,
      <<Malformed>> }

InitialReaction ==
    { <<>>,                                            \* key absent
      <<JSONstringify(<< <<"likes", JNum(3)>>, <<"dislikes", JNum(1)>>,
                         <<"userReact", JStr("like")>>, <<"saved", JBool(TRUE)>> >>)>>,
      <<JSONstringify(<< <<"likes", JNum(0)>>, <<"dislikes", JNum(0)>>,
                         <<"userReact", JStr("dislike")>>, <<"saved", JBool(FALSE)>> >>)>>,
      <<JSONstringify(<< <<"dislikes", JNum(2)>> >>)>>,  \* the other fields missing
      <<Malformed>> }

\* the store with key k holding the text of the one-element sequence x, if any
Holding(k, x) == IF x = <<>> THEN <<>> ELSE [kk \in {k} |-> x[1]]

\* one key holds any of its texts while the other is absent
InitialStores ==
    { Holding(GLOBAL_KEY, g) : g \in InitialGlobal }
    \cup { Holding("insta-card:" \o IMAGE_B, r) : r \in InitialReaction }

\* the in-memory values a write of the reaction record carries
Memory(t) == <<t.likes, t.dislikes, t.userReact, t.saved>>

\* history: what _persist wrote last while image X was shown
Recorded(p, t) == IF t.image # "" THEN [p EXCEPT ![t.image] = <<Memory(t)>>] ELSE p

World == [this |-> this, ls |-> localStorage, issued |-> 0]

Init ==
    /\ this = constructor
    /\ localStorage \in InitialStores
    /\ initial = localStorage
    /\ connected = FALSE
    /\ awaitFetch = 0
    /\ awaitJson = 0
    /\ activations = 0
    /\ overlapped = FALSE
    /\ persisted = [x \in IMAGES |-> <<>>]
    /\ just = ""
    /\ delivered = <<>>

\* the element is attached to the document
Connect ==
    /\ ~connected
    /\ connected' = TRUE
    /\ this' = connectedCallback(World).this
    /\ just' = ""
    /\ delivered' = <<>>
    /\ UNCHANGED <<localStorage, awaitFetch, awaitJson, activations, overlapped,
                   persisted, initial>>

\* the element is detached from the document
Disconnect ==
    /\ connected
    /\ connected' = FALSE
    /\ this' = disconnectedCallback(World).this
    /\ just' = ""
    /\ delivered' = <<>>
    /\ UNCHANGED <<localStorage, awaitFetch, awaitJson, activations, overlapped,
                   persisted, initial>>

\* the observer, while it observes, delivers a batch of entries
Intersect ==
    /\ this._io = "observing"
    /\ \E n \in 1 .. MaxEntries : \E entries \in [1 .. n -> BOOLEAN] :
         \E w \in {ForEachEntry(World, entries)} :
             /\ this' = w.this
             /\ localStorage' = w.ls
             /\ awaitFetch' = awaitFetch + w.issued
             /\ activations' = activations + w.issued
    /\ just' = ""
    /\ delivered' = <<>>
    /\ UNCHANGED <<connected, awaitJson, overlapped, persisted, initial>>

\* the controls exist only once render() has drawn them (line 209)
Rendered == connected /\ this.visible

\* a click on the like or the dislike button
ReactWith(type) ==
    /\ Rendered
    /\ \E w \in {_react(World, type)} :
           /\ this' = w.this
           /\ localStorage' = w.ls
           /\ persisted' = Recorded(persisted, w.this)
    /\ just' = type
    /\ delivered' = <<>>
    /\ UNCHANGED <<connected, awaitFetch, awaitJson, activations, overlapped, initial>>

React == \E type \in {"like", "dislike"} : ReactWith(type)

\* a click on the save button
ToggleSave ==
    /\ Rendered
    /\ \E w \in {_toggleSave(World)} :
           /\ this' = w.this
           /\ localStorage' = w.ls
           /\ persisted' = Recorded(persisted, w.this)
    /\ just' = "save"
    /\ delivered' = <<>>
    /\ UNCHANGED <<connected, awaitFetch, awaitJson, activations, overlapped, initial>>

\* a click on the "New" button
Refresh ==
    /\ Rendered
    /\ awaitFetch + awaitJson < MaxInFlight
    /\ \E w \in {_refresh(World)} :
           /\ this' = w.this
           /\ awaitFetch' = awaitFetch + w.issued
    /\ overlapped' = (overlapped \/ awaitFetch + awaitJson > 0)
    /\ just' = ""
    /\ delivered' = <<>>
    /\ UNCHANGED <<localStorage, connected, awaitJson, activations, persisted, initial>>

\* fetch() resolves with an ok response: the call goes on to `await res.json()`
FetchOk ==
    /\ awaitFetch > 0
    /\ awaitFetch' = awaitFetch - 1
    /\ awaitJson' = awaitJson + 1
    /\ just' = ""
    /\ delivered' = <<>>
    /\ UNCHANGED <<this, localStorage, connected, activations, overlapped, persisted,
                   initial>>

\* fetch() rejects: a network failure (line 134)
FetchReject ==
    /\ awaitFetch > 0
    /\ awaitFetch' = awaitFetch - 1
    /\ \E w \in {FetchFail(World)} :
           /\ this' = w.this
           /\ localStorage' = w.ls
           /\ persisted' = Recorded(persisted, w.this)
    /\ just' = "rejected"
    /\ delivered' = <<>>
    /\ UNCHANGED <<connected, awaitJson, activations, overlapped, initial>>

\* fetch() resolves with a status that is not ok, and line 135 throws
FetchNotOk ==
    /\ awaitFetch > 0
    /\ awaitFetch' = awaitFetch - 1
    /\ \E w \in {FetchFail(World)} :
           /\ this' = w.this
           /\ localStorage' = w.ls
           /\ persisted' = Recorded(persisted, w.this)
    /\ just' = "not ok"
    /\ delivered' = <<>>
    /\ UNCHANGED <<connected, awaitJson, activations, overlapped, initial>>

\* res.json() rejects: the body is not JSON
JsonError ==
    /\ awaitJson > 0
    /\ awaitJson' = awaitJson - 1
    /\ \E w \in {FetchFail(World)} :
           /\ this' = w.this
           /\ localStorage' = w.ls
           /\ persisted' = Recorded(persisted, w.this)
    /\ just' = "no body"
    /\ delivered' = <<>>
    /\ UNCHANGED <<connected, awaitFetch, activations, overlapped, initial>>

\* res.json() resolves with a body
JsonOk ==
    /\ awaitJson > 0
    /\ awaitJson' = awaitJson - 1
    /\ \E data \in Bodies :
         \E w \in {FetchResume(World, data)} :
             /\ this' = w.this
             /\ localStorage' = w.ls
             /\ persisted' = Recorded(persisted, w.this)
             /\ delivered' = <<data>>
             /\ just' = IF ~HasItem(localStorage, storageKey(w.this))
                              THEN "no record"
                              ELSE IF persisted[data.image] # <<>> THEN "own record"
                              ELSE "first record"
    /\ UNCHANGED <<connected, awaitFetch, activations, overlapped, initial>>

Next ==
    \/ Connect
    \/ Disconnect
    \/ Intersect
    \/ React
    \/ ToggleSave
    \/ Refresh
    \/ FetchOk
    \/ FetchReject
    \/ FetchNotOk
    \/ JsonError
    \/ JsonOk

Spec == Init /\ [][Next]_vars

-----------------------------------------------------------------------------
(* The properties.  They read the store by its keys and texts, without the *)
(* component's own helpers.                                                *)

KeyOf(image) == "insta-card:" \o image

IsRecordText(text) == Parses(text) /\ JSONparse(text).t = "object"

\* a field of a parsed record, or the default when the record lacks it
FieldOr(p, name, default) == IF p[name].t = "undefined" THEN default ELSE p[name]

\* the {likeCount, dislikeCount, userReaction, saved} a record text stands for
RecordValues(text) ==
    LET p == JSONparse(text).prop
    IN  << FieldOr(p, "likes", JNum(0)).n, FieldOr(p, "dislikes", JNum(0)).n,
           FieldOr(p, "userReact", JStr("")).s,
           p["saved"].t = "boolean" /\ p["saved"].b >>

\* the keys of the store that hold a reaction record
RecordKeys ==
    {k \in DOMAIN localStorage : k # GLOBAL_KEY /\ IsRecordText(localStorage[k])}

Outstanding == awaitFetch + awaitJson

\* the marks of a _fetchFox call that completed with a body
Loaded == {"no record", "first record", "own record"}

\* the store the page started with holds no reaction record
OwnRecordsOnly == DOMAIN initial \subseteq {GLOBAL_KEY}

\* C1: the like and dislike counters are never negative, in the component and in
\* every reaction record of the store.
CountersNeverNegative ==
    /\ this.likes >= 0
    /\ this.dislikes >= 0
    /\ \A k \in RecordKeys : \A v \in {RecordValues(localStorage[k])} :
          v[1] >= 0 /\ v[2] >= 0

\* C1 witness: a dislike was taken back on the image whose stored record said
\* "dislike" with both counters 0, and the counters are 0.
UndoneAtZero ==
    /\ just = "dislike"
    /\ HasItem(initial, KeyOf(IMAGE_B))
    /\ IsRecordText(initial[KeyOf(IMAGE_B)])
    /\ RecordValues(initial[KeyOf(IMAGE_B)]) = <<0, 0, "dislike", FALSE>>
    /\ this.image = IMAGE_B
    /\ this.userReact = ""
    /\ this.likes = 0
    /\ this.dislikes = 0

\* C2 as stated: at most one fetch is outstanding at any time.
AtMostOneOutstanding == Outstanding <= 1

\* C2 amended: at most one fetch is outstanding as long as refresh() has not been
\* called while a fetch was outstanding.
OneOutstandingUnlessOverlapped == ~overlapped => Outstanding <= 1

\* C2 witness: an image has loaded, and the fetch of a later refresh() is the one
\* outstanding.
RefreshOutstandingAlone ==
    /\ ~overlapped
    /\ this.image # ""
    /\ Outstanding = 1

\* C3: visible goes from false to true once and never back, the activation steps
\* run on the first intersection only, the component observes no more once it is
\* visible, and a later intersection changes nothing.
ActivatedOnceThenUnobserved ==
    [][ /\ (this.visible => this'.visible)
        /\ (activations' # activations => (~this.visible /\ activations' = 1))
        /\ (this'.visible <=> activations' = 1)
        /\ (this'.visible => this'._io # "observing")
        /\ ((this.visible /\ Intersect) => UNCHANGED <<this, localStorage, awaitFetch>>)
      ]_vars

\* C4: with no reaction record in the store but the component's own, once an image
\* has loaded a standing like implies likeCount >= 1 and a standing dislike
\* implies dislikeCount >= 1.
ReactionIsCounted ==
    (OwnRecordsOnly /\ this.image # "") =>
        /\ (this.userReact = "like" => this.likes >= 1)
        /\ (this.userReact = "dislike" => this.dislikes >= 1)

\* C4 witness: the user has just disliked a loaded image.
DislikedAfterLoad ==
    /\ OwnRecordsOnly
    /\ this.image # ""
    /\ just = "dislike"
    /\ this.userReact = "dislike"
    /\ this.dislikes = 1

Floored(n) == IF n < 0 THEN 0 ELSE n

\* the transition of section 4.3
ReferenceReact(t, kind) ==
    LET other == IF kind = "like" THEN "dislike" ELSE "like"
        count == [k \in {"like", "dislike"} |-> IF k = "like" THEN t.likes ELSE t.dislikes]
        after == IF t.userReact = kind
                 THEN [k \in {"like", "dislike"} |->
                         IF k = kind THEN Floored(count[k] - 1) ELSE count[k]]
                 ELSE [k \in {"like", "dislike"} |->
                         IF k = kind THEN count[k] + 1
                         ELSE IF t.userReact = other THEN Floored(count[k] - 1)
                         ELSE count[k]]
    IN  <<after["like"], after["dislike"], IF t.userReact = kind THEN "" ELSE kind>>

\* C5: from every state and for each kind, react(kind) yields the reference
\* transition.
ReactIsReference ==
    [][ \A kind \in {"like", "dislike"} :
          just' = kind =>
            <<this'.likes, this'.dislikes, this'.userReact>> = ReferenceReact(this, kind)
      ]_vars

\* C5 witness: a dislike has just been made on a loaded image and stands alone, as
\* in the scenario.
SwitchedToDislike ==
    /\ just = "dislike"
    /\ this.userReact = "dislike"
    /\ this.likes = 0
    /\ this.dislikes = 1
    /\ this.image = IMAGE_A
    /\ initial = <<>>

\* C6: when fetch() rejects or answers with a status that is not ok, the completion
\* leaves loading false, the error message the fixed one and the image the one
\* before.
FailureKeepsImage ==
    [][ just' \in {"rejected", "not ok"} =>
          /\ this'.loading = FALSE
          /\ this'.error = FAILED
          /\ this'.image = this.image
      ]_vars

\* C6 witness: a fetch has just failed on its status while an image is shown.
FailedWithImageShown ==
    /\ just = "not ok"
    /\ this.image = IMAGE_A
    /\ this.error = FAILED
    /\ ~this.loading

\* C7: when a fetch succeeds with image X and the store holds a record that parses
\* under X's key, the component's counters, reaction and saved flag are then the
\* record's.
RestoresStoredRecord ==
    [][ ( /\ just' \in Loaded
          /\ HasItem(localStorage, KeyOf(this'.image))
          /\ IsRecordText(localStorage[KeyOf(this'.image)]) )
        => Memory(this') = RecordValues(localStorage[KeyOf(this'.image)])
      ]_vars

\* C7 witness: the record {3, 1, "like", true} the page started with has been
\* restored, over a reaction made on the image before.
RestoredScenarioRecord ==
    /\ just = "first record"
    /\ this.image = IMAGE_B
    /\ Memory(this) = <<3, 1, "like", TRUE>>
    /\ persisted[IMAGE_A] # <<>>
    /\ persisted[IMAGE_A][1][3] = "dislike"

\* C8: when a fetch succeeds with an image the store has no record for, the
\* counters become 0 and the reaction none, and saved stays as it was.
ResetKeepsSaved ==
    [][ (just' \in Loaded /\ ~HasItem(localStorage, KeyOf(this'.image))) =>
          /\ this'.likes = 0
          /\ this'.dislikes = 0
          /\ this'.userReact = ""
          /\ this'.saved = this.saved
      ]_vars

\* C8 witness: the first image has just loaded with no record, and saved is the
\* true that hydration took from the global preference.
FirstLoadKeepsHydratedSaved ==
    /\ just = "no record"
    /\ HasItem(initial, GLOBAL_KEY)
    /\ IsRecordText(initial[GLOBAL_KEY])
    /\ persisted[IMAGE_B] = <<>>
    /\ this.image = IMAGE_A
    /\ Memory(this) = <<0, 0, "", TRUE>>

\* C9: a stored text that does not parse is treated as absent: a fetch that
\* succeeds with an image whose record does not parse resets the counters and the
\* reaction and sets no error message, and activation with a global preference
\* that does not parse leaves saved as it was.
MalformedIsAbsent ==
    [][ /\ ( /\ just' \in Loaded
             /\ HasItem(localStorage, KeyOf(this'.image))
             /\ ~Parses(localStorage[KeyOf(this'.image)]) )
           => /\ this'.likes = 0
              /\ this'.dislikes = 0
              /\ this'.userReact = ""
              /\ this'.error = ""
        /\ ( /\ activations' # activations
             /\ HasItem(localStorage, GLOBAL_KEY)
             /\ ~Parses(localStorage[GLOBAL_KEY]) )
           => this'.saved = this.saved
      ]_vars

\* C10: a fetch that resolves to an image the component has persisted its state
\* under restores the counters, reaction and saved flag last persisted for it.
RoundTrip ==
    [][ (just' \in Loaded /\ persisted[this'.image] # <<>>) =>
          Memory(this') = persisted[this'.image][1]
      ]_vars

\* C10 witness: image A is back after another image was shown, with the like and
\* the saved flag it was left with.
ReturnedToLikedImage ==
    /\ just = "own record"
    /\ initial = <<>>
    /\ this.image = IMAGE_A
    /\ persisted[IMAGE_B] # <<>>
    /\ Memory(this) = <<1, 0, "like", TRUE>>

\* the saved flag of the global preference record, <<>> when the key is absent
\* or its text is not a record
GlobalValue(ls) ==
    IF GLOBAL_KEY \in DOMAIN ls /\ IsRecordText(ls[GLOBAL_KEY])
        THEN <<JSONparse(ls[GLOBAL_KEY]).prop["saved"]>>
        ELSE <<>>

\* the world a handler finds after the step
WorldAfter == [this |-> this', ls |-> localStorage', issued |-> 0]

\* C11: when the global preference record agrees with saved, a toggleSave()
\* followed at once by another leaves saved and the global preference record as
\* they were before the first.
TwoTogglesRestore ==
    [][ (just' = "save" /\ GlobalValue(localStorage) = <<JBool(this.saved)>>) =>
          \A again \in {_toggleSave(WorldAfter)} :
              /\ again.this.saved = this.saved
              /\ GlobalValue(again.ls) = GlobalValue(localStorage)
      ]_vars

\* C11 witness: the page started with the preference {saved: true}, which the
\* component took at activation, and a toggleSave() has just cleared the flag.
SavedTakenBack ==
    /\ just = "save"
    /\ GlobalValue(initial) = <<JBool(TRUE)>>
    /\ ~this.saved
    /\ GlobalValue(localStorage) = <<JBool(FALSE)>>

\* C12 as stated: right after a fetch completes with a body, loading is false
\* and errorMessage is empty, whatever refresh() calls and completions came
\* before; and loading never holds together with a non-empty errorMessage.
SuccessClearsLoadingAndError ==
    [][ /\ (just' \in Loaded => (~this'.loading /\ this'.error = ""))
        /\ ~(this'.loading /\ this'.error # "")
      ]_vars

\* C13: from no standing reaction, react(kind) followed at once by react(kind)
\* leaves likeCount, dislikeCount and userReaction as they were before the first.
ReactTwiceRestores ==
    [][ \A kind \in {"like", "dislike"} :
          (just' = kind /\ this.userReact = "") =>
              \A again \in {_react(WorldAfter, kind)} :
                  /\ again.this.likes = this.likes
                  /\ again.this.dislikes = this.dislikes
                  /\ again.this.userReact = this.userReact
      ]_vars

\* C13 witness: on an image loaded without a record a like has just been taken
\* back, and the counters and the reaction are those of the fresh image again.
LikeTakenBack ==
    /\ initial = <<>>
    /\ this.image # ""
    /\ just = "like"
    /\ this.userReact = ""
    /\ this.likes = 0
    /\ this.dislikes = 0

\* the marks of a click
Clicks == {"like", "dislike", "save"}

\* the marks of a _fetchFox call that completed, with a body or without
Completed == Loaded \cup {"rejected", "not ok", "no body"}

\* the text of the global preference record {saved}
SavedText(saved) == <<"{", "\"saved\"", IF saved THEN "true" ELSE "false", "}">>

\* the text of the reaction record {likes, dislikes, userReact, saved} of t
RecordText(t) ==
    <<"{", "\"likes\"", NumText(t.likes), "\"dislikes\"", NumText(t.dislikes),
      "\"userReact\"", "\"" \o t.userReact \o "\"",
      "\"saved\"", IF t.saved THEN "true" ELSE "false", "}">>

\* the store ls holds the global preference record of the values in t
HoldsGlobalOf(ls, t) ==
    GLOBAL_KEY \in DOMAIN ls /\ ls[GLOBAL_KEY] = SavedText(t.saved)

\* the store ls holds under the image's key the reaction record of the values in t
HoldsRecordOf(ls, t) ==
    KeyOf(t.image) \in DOMAIN ls /\ ls[KeyOf(t.image)] = RecordText(t)

\* the store after the step differs from the store before it at these keys
Written ==
    {k \in DOMAIN localStorage \cup DOMAIN localStorage' :
        \/ k \notin DOMAIN localStorage
        \/ k \notin DOMAIN localStorage'
        \/ localStorage'[k] # localStorage[k]}

\* C14: every click and every completion of a fetch leaves the global preference
\* record equal to {saved}, writes the record under the image's key when an image
\* is shown, and writes under no other key; nothing is ever stored under the key
\* of the "pending" sentinel; and a click made before any image has loaded changes
\* the store at the global key only.
PersistGuardsPendingKey ==
    [][ /\ KeyOf("pending") \notin DOMAIN localStorage'
        /\ (just' \in Clicks \cup Completed) =>
              /\ HoldsGlobalOf(localStorage', this')
              /\ (this'.image # "" => HoldsRecordOf(localStorage', this'))
              /\ Written \subseteq {GLOBAL_KEY} \cup
                                    (IF this'.image # "" THEN {KeyOf(this'.image)} ELSE {})
        /\ (just' \in Clicks /\ this.image = "") => Written \subseteq {GLOBAL_KEY}
      ]_vars

\* C14 witness: a like has just been made before any image has loaded, and the
\* store, empty before, holds the global preference record and nothing else.
LikedBeforeAnyImage ==
    /\ initial = <<>>
    /\ this.image = ""
    /\ just = "like"
    /\ this.userReact = "like"
    /\ DOMAIN localStorage = {GLOBAL_KEY}

\* the counters and the reaction the store ls holds for an image: those of its
\* record, and 0, 0 and none when it has no record or one that cannot be parsed
Reconciled(ls, image) ==
    IF KeyOf(image) \in DOMAIN ls /\ IsRecordText(ls[KeyOf(image)])
        THEN LET v == RecordValues(ls[KeyOf(image)]) IN <<v[1], v[2], v[3]>>
        ELSE <<0, 0, "">>

\* C15 as stated: once refresh() has been called while a fetch was outstanding,
\* each fetch that completes with a body leaves imageUrl, sourceLink, the
\* counters and the reaction as those of that body, so that the response that
\* completes last wins.
LastCompletionWins ==
    [][ (overlapped /\ just' \in Loaded) =>
          \A data \in {delivered'[1]} :
              /\ this'.image = data.image
              /\ this'.link = (IF data.link.t = "string" /\ data.link.s # ""
                                   THEN data.link.s ELSE DEFAULT_LINK)
              /\ <<this'.likes, this'.dislikes, this'.userReact>>
                     = Reconciled(localStorage, data.image)
      ]_vars

\* C16 as stated: a click made while a fetch is outstanding takes effect at once
\* and is written under the key of the image then shown; and when a fetch
\* completes with another image than the one shown, the record of the image shown
\* before stays as it was, holding the values of that moment, while the counters
\* and the reaction in memory and in the new image's record are those the store
\* held for the new image, or 0, 0 and none.
ClickStaysWithShownImage ==
    [][ /\ (just' \in Clicks /\ Outstanding > 0) =>
              /\ (just' = "save" => this'.saved = ~this.saved)
              /\ (just' # "save" =>
                    this'.userReact = (IF this.userReact = just' THEN "" ELSE just'))
              /\ this'.image = this.image
              /\ (this.image # "" => HoldsRecordOf(localStorage', this'))
        /\ (just' \in Loaded /\ this.image # "" /\ delivered'[1].image # this.image) =>
              /\ HoldsRecordOf(localStorage, this)
              /\ HoldsRecordOf(localStorage', this)
              /\ <<this'.likes, this'.dislikes, this'.userReact>>
                     = Reconciled(localStorage, delivered'[1].image)
              /\ HoldsRecordOf(localStorage', this')
      ]_vars

\* the store agrees with memory: the global preference record is {saved} and,
\* when an image is shown, the record under its key holds the values in memory
InSync ==
    /\ HoldsGlobalOf(localStorage, this)
    /\ (this.image # "" => HoldsRecordOf(localStorage, this))

\* C17: every click and every completion of a fetch, failed or not, leaves the
\* store in agreement with memory, and every step from a state in agreement leads
\* to a state in agreement; so the store agrees with memory in every state after
\* the first click or completion.
StorageInSync ==
    [][ (just' \in Clicks \cup Completed \/ InSync) => InSync' ]_vars

\* C17 witness: a liked image is shown while the fetch of a later refresh() is
\* outstanding, and the store agrees with memory.
InSyncWhileRefreshing ==
    /\ just = ""
    /\ this.image # ""
    /\ this.loading
    /\ this.userReact = "like"
    /\ Outstanding > 0
    /\ InSync

\* the keys of the reaction records of the images other than the one shown
OtherRecordKeys == {KeyOf(x) : x \in IMAGES \ {this.image}}

\* C18: a click on like, dislike or save leaves imageUrl, sourceLink, visible,
\* loading and errorMessage as they were and changes the reaction record of no
\* image but the one shown; a click on save leaves the counters and the reaction
\* as they were, and a click on like or dislike leaves saved as it was.
ClicksKeepTheirFrame ==
    [][ (just' \in Clicks) =>
          /\ this'.image = this.image
          /\ this'.link = this.link
          /\ this'.visible = this.visible
          /\ this'.loading = this.loading
          /\ this'.error = this.error
          /\ Written \cap OtherRecordKeys = {}
          /\ (just' = "save" =>
                <<this'.likes, this'.dislikes, this'.userReact>>
                    = <<this.likes, this.dislikes, this.userReact>>)
          /\ (just' # "save" => this'.saved = this.saved)
      ]_vars

\* C18 witness: while image A is shown with a failed refresh behind it and the
\* record of image B in the store, the user has just saved the image.
SavedAfterFailedRefresh ==
    /\ just = "save"
    /\ this.saved
    /\ this.image = IMAGE_A
    /\ this.error # ""
    /\ KeyOf(IMAGE_B) \in DOMAIN localStorage

\* the counters hold the user's one reaction and nothing else
OneUnit(likes, dislikes, userReact) ==
    /\ likes = (IF userReact = "like" THEN 1 ELSE 0)
    /\ dislikes = (IF userReact = "dislike" THEN 1 ELSE 0)

\* C19: when the page starts with no reaction record in the store, in every state
\* likeCount is 1 if the user's reaction is like and 0 otherwise, dislikeCount is
\* 1 if it is dislike and 0 otherwise, and every reaction record of the store
\* satisfies the same.
AtMostOneUnit ==
    OwnRecordsOnly =>
        /\ OneUnit(this.likes, this.dislikes, this.userReact)
        /\ \A k \in DOMAIN localStorage \ {GLOBAL_KEY} :
              /\ IsRecordText(localStorage[k])
              /\ \A v \in {RecordValues(localStorage[k])} : OneUnit(v[1], v[2], v[3])

\* C19 witness: with no record at the start, the record of image A holds a like
\* and the user has just disliked image B.
LikedOneDislikedOther ==
    /\ OwnRecordsOnly
    /\ this.image = IMAGE_B
    /\ just = "dislike"
    /\ <<this.likes, this.dislikes, this.userReact>> = <<0, 1, "dislike">>
    /\ KeyOf(IMAGE_A) \in DOMAIN localStorage
    /\ localStorage[KeyOf(IMAGE_A)]
           = RecordText([likes |-> 1, dislikes |-> 0, userReact |-> "like",
                         saved |-> this.saved])

=============================================================================
